---- MODULE Spec2Model ----
(***************************************************************************)
(* Model of app.py: the Streamlit practice page of the HKDSE mathematics   *)
(* trainer.  Every user interaction re-runs the script top to bottom; one  *)
(* action of the model is one such run.  The external Gemini call is the   *)
(* environment: it either raises or returns a response text.               *)
(*                                                                         *)
(* A text is a sequence of lexemes.  Backticks, the letters of a fence     *)
(* tag and white space are single characters; a JSON string literal, the   *)
(* literal null and the JSON punctuation are one lexeme each, because      *)
(* neither str.strip, str.startswith nor the two regular expressions of    *)
(* call_gemini look inside them.                                           *)
(***************************************************************************)
EXTENDS Integers, Sequences, FiniteSets, TLC

VARIABLES
    session_state,  \* st.session_state: the seven keys of STATE_DEFAULTS
    section,        \* value of the section selectbox
    topic,          \* value of the topic selectbox
    triggers,       \* history: script runs with generate_btn = True
    calls,          \* history: calls of model.generate_content
    last,           \* history: what the last script run was and did
    raw_text,       \* SpecParse: the response text given to call_gemini
    fence,          \* SpecParse: how raw_text was wrapped around body
    body,           \* SpecParse: the unwrapped text
    parsed,         \* SpecParse: what call_gemini returned for raw_text
    pc              \* SpecParse: "idle" | "received" | "done"

vars == <<session_state, section, topic, triggers, calls, last,
          raw_text, fence, body, parsed, pc>>

sessionVars == <<session_state, section, topic, triggers, calls, last>>

parseVars == <<raw_text, fence, body, parsed, pc>>

----------------------------------------------------------------------------
(* Bounds *)

MaxTriggers == 2

NumTopics == 2

----------------------------------------------------------------------------
(* Python values *)

None == <<"None">>

PyStr(s) == <<"str", s>>

IsText(v) == Len(v) = 2 /\ v[1] = "str"

----------------------------------------------------------------------------
(* Lexemes of a response text *)

\* The backtick character (it cannot be written inside a TLA+ string).
BT == "<backtick>"

SP == " "

NL == "\n"

Whitespace == {SP, NL}

FenceMark == <<BT, BT, BT>>

JsonTag == <<"j", "s", "o", "n">>

LQuestion == "\"question\""

LHint == "\"hint\""

LSolution == "\"solution\""

StrVal ==
    (LQuestion :> "question") @@ (LHint :> "hint") @@ (LSolution :> "solution")
    @@ ("\"Q1\"" :> "Q1") @@ ("\"Q2\"" :> "Q2") @@ ("\"H1\"" :> "H1")
    @@ ("\"S1\"" :> "S1")

StringLits == DOMAIN StrVal

Scalars == StringLits \cup {"null"}

----------------------------------------------------------------------------
(* Program constants *)

SectionNames == <<"A1", "A2", "B">>

TopicNames == <<"Algebra", "Geometry", "Statistics", "Polynomials", "Circles",
                "Sequences", "Trigonometry", "Probability">>

SECTIONS == {SectionNames[i] : i \in 1..Len(SectionNames)}

TOPICS == {TopicNames[i] : i \in 1..NumTopics}

STATE_DEFAULTS ==
    [current_question |-> None, current_hint |-> None,
     current_solution |-> None, show_hint |-> FALSE, show_solution |-> FALSE,
     display_section |-> "", display_topic |-> ""]

QuestionPlaceholder == PyStr("(question generation failed, retry)")

HintPlaceholder == PyStr("(hint not generated)")

SolutionPlaceholder == PyStr("(solution not generated)")

----------------------------------------------------------------------------
(* Text helpers *)

StartsWith(s, p) == Len(s) >= Len(p) /\ SubSeq(s, 1, Len(p)) = p

EndsWith(s, p) == Len(s) >= Len(p) /\ SubSeq(s, Len(s) - Len(p) + 1, Len(s)) = p

DropFirst(s, n) == SubSeq(s, n + 1, Len(s))

DropLast(s, n) == SubSeq(s, 1, Len(s) - n)

RECURSIVE LStrip(_)
LStrip(s) ==
    IF s /= <<>> /\ Head(s) \in Whitespace THEN LStrip(Tail(s)) ELSE s

RECURSIVE RStrip(_)
RStrip(s) ==
    IF s /= <<>> /\ s[Len(s)] \in Whitespace THEN RStrip(DropLast(s, 1)) ELSE s

\* str.strip()
PyStrip(s) == RStrip(LStrip(s))

\* Faulty variant: the pattern without its (?:json)? group.
StripFenceOpen_NoTag(s) ==
    IF StartsWith(s, FenceMark) THEN LStrip(DropFirst(s, 3)) ELSE s

\* re.sub(r"^```(?:json)?\s*\n?", "", raw_text): the three backticks, the
\* letters json when they follow, then every white space character.
StripFenceOpen(s) ==
    IF StartsWith(s, FenceMark)
    THEN LET r == DropFirst(s, 3)
         IN  LStrip(IF StartsWith(r, JsonTag) THEN DropFirst(r, 4) ELSE r)
    ELSE s

\* re.sub(r"\n?\s*```$", "", raw_text): the three backticks that end the text
\* (or stand just before its final newline) and the white space in front.
StripFenceClose(s) ==
    IF EndsWith(s, FenceMark) THEN RStrip(DropLast(s, 3))
    ELSE IF EndsWith(s, FenceMark \o <<NL>>)
         THEN RStrip(DropLast(s, 4)) \o <<NL>>
         ELSE s

----------------------------------------------------------------------------
(* json.loads on the flat JSON the model draws: scalars, arrays of scalars *)
(* and objects whose members are scalars.                                  *)

NoData == <<>>

JSONDecodeError == [ok |-> FALSE, type |-> "JSONDecodeError", value |-> NoData]

Loaded(t, v) == [ok |-> TRUE, type |-> t, value |-> v]

Tokens(s) == SelectSeq(s, LAMBDA c : c \notin Whitespace)

ScalarValue(x) == IF x = "null" THEN None ELSE PyStr(StrVal[x])

\* x1 , x2 , ... , xn with every x a scalar
IsElements(t) ==
    /\ Len(t) % 2 = 1
    /\ \A i \in 1..Len(t) :
          IF i % 2 = 1 THEN t[i] \in Scalars ELSE t[i] = ","

\* k1 : v1 , k2 : v2 , ... with every k a string literal, every v a scalar
IsMembers(t) ==
    /\ Len(t) % 4 = 3
    /\ \A i \in 1..Len(t) :
          CASE i % 4 = 1 -> t[i] \in StringLits
            [] i % 4 = 2 -> t[i] = ":"
            [] i % 4 = 3 -> t[i] \in Scalars
            [] OTHER     -> t[i] = ","

\* The dict of a member list: a repeated key keeps its last value.
MembersDict(t) ==
    LET n == (Len(t) + 1) \div 4
        key(i) == StrVal[t[4 * i - 3]]
        keys == {key(i) : i \in 1..n}
        lastOf(k) == CHOOSE i \in 1..n :
                        key(i) = k /\ \A j \in (i + 1)..n : key(j) /= k
    IN  [k \in keys |-> ScalarValue(t[4 * lastOf(k) - 1])]

json_loads(s) ==
    LET t == Tokens(s)
        n == Len(t)
        inner == SubSeq(t, 2, n - 1)
    IN  IF n = 1 /\ t[1] \in Scalars
        THEN Loaded(IF t[1] = "null" THEN "NoneType" ELSE "str", NoData)
        ELSE IF n >= 2 /\ t[1] = "[" /\ t[n] = "]"
             THEN IF inner = <<>> \/ IsElements(inner)
                  THEN Loaded("list", NoData) ELSE JSONDecodeError
        ELSE IF n >= 2 /\ t[1] = "{" /\ t[n] = "}"
             THEN IF inner = <<>> THEN Loaded("dict", NoData)
                  ELSE IF IsMembers(inner)
                       THEN Loaded("dict", MembersDict(inner))
                       ELSE JSONDecodeError
        ELSE JSONDecodeError

----------------------------------------------------------------------------
(* call_gemini, from the response text on *)

call_gemini(text) ==
    LET stripped == PyStrip(text)
        cleaned == IF StartsWith(stripped, FenceMark)
                   THEN StripFenceClose(StripFenceOpen(stripped))
                   ELSE stripped
    IN  json_loads(cleaned)

\* The user message call_gemini builds: the section and topic it names.
user_message(sec, top) == <<sec, top>>

\* model.generate_content or response.text raised.
APIError == [ok |-> FALSE, type |-> "APIError", value |-> NoData]

----------------------------------------------------------------------------
(* The responses the environment may give *)

Join(a, b) == IF a = <<>> THEN b ELSE IF b = <<>> THEN a ELSE a \o <<",", NL>> \o b

Member(k, v) == IF v = "absent" THEN <<>> ELSE <<SP, k, ":", SP, v>>

\* A pretty-printed object; a value "absent" leaves the key out.
ObjectText(q, h, s) ==
    <<"{", NL>>
    \o Join(Member(LQuestion, q), Join(Member(LHint, h), Member(LSolution, s)))
    \o <<NL, "}">>

FieldValues(text) == {"absent", "null", text}

ObjectTexts ==
    {ObjectText(q, h, s) :
        q \in FieldValues("\"Q1\""), h \in FieldValues("\"H1\""),
        s \in FieldValues("\"S1\"")}
    \cup {ObjectText("\"Q2\"", "\"H1\"", "\"S1\"")}

NonObjectTexts ==
    { <<"[", "]">>, <<"[", "\"Q1\"", ",", SP, "null", "]">>, <<"\"Q1\"">>,
      <<"null">> }

GarbageTexts ==
    { <<>>, <<"{">>, <<"{", LQuestion, "}">>, <<"s", "o", SP, "s", "o">>,
      FenceMark, <<"{", LQuestion, ":", "\"Q1\"", ",", "}">> }

JsFence(t) == FenceMark \o <<"j", "s", NL>> \o t \o <<NL>> \o FenceMark

JsonFence(t) == FenceMark \o JsonTag \o <<NL>> \o t \o <<NL>> \o FenceMark

Responses ==
    ObjectTexts
    \cup {JsonFence(ObjectText(q, "\"H1\"", "absent")) : q \in FieldValues("\"Q2\"")}
    \cup NonObjectTexts \cup GarbageTexts
    \cup {JsFence(ObjectText("\"Q1\"", "\"H1\"", "\"S1\""))}

\* What call_gemini can do in a run: raise in the call, or return or raise
\* what its clean-up and json.loads make of a response.
Replies == {APIError} \cup {call_gemini(r) : r \in Responses}

----------------------------------------------------------------------------
(* One run of the script *)

\* Section 4: a key missing from st.session_state gets its default.
StateInit(ss) ==
    [k \in DOMAIN STATE_DEFAULTS |->
        IF k \in DOMAIN ss THEN ss[k] ELSE STATE_DEFAULTS[k]]

\* Faulty variant: data.get(key) or default, which also replaces a null.
DictGet_OrDefault(d, k, default) ==
    IF k \in DOMAIN d /\ d[k] /= None THEN d[k] ELSE default

\* dict.get(key, default)
DictGet(d, k, default) == IF k \in DOMAIN d THEN d[k] ELSE default

\* Faulty variant: the reset of show_solution is forgotten.
GenerateStore_ResetHintOnly(ss, data, sec, top) ==
    [ss EXCEPT
        !.current_question = DictGet(data, "question", QuestionPlaceholder),
        !.current_hint = DictGet(data, "hint", HintPlaceholder),
        !.current_solution = DictGet(data, "solution", SolutionPlaceholder),
        !.show_hint = FALSE,
        !.display_section = sec,
        !.display_topic = top]

\* Faulty variant: neither reveal flag is reset.
GenerateStore_KeepFlags(ss, data, sec, top) ==
    [ss EXCEPT
        !.current_question = DictGet(data, "question", QuestionPlaceholder),
        !.current_hint = DictGet(data, "hint", HintPlaceholder),
        !.current_solution = DictGet(data, "solution", SolutionPlaceholder),
        !.display_section = sec,
        !.display_topic = top]

\* The body of the try block after call_gemini returned a dict.
GenerateStore(ss, data, sec, top) ==
    [ss EXCEPT
        !.current_question = DictGet(data, "question", QuestionPlaceholder),
        !.current_hint = DictGet(data, "hint", HintPlaceholder),
        !.current_solution = DictGet(data, "solution", SolutionPlaceholder),
        !.show_hint = FALSE,
        !.show_solution = FALSE,
        !.display_section = sec,
        !.display_topic = top]

\* What a run did: the state it left, how the try block ended, which
\* st.error message it showed and how many, and the requests it sent.
Report(ss, oc, msg, reqs, nerr) ==
    [state |-> ss, outcome |-> oc, message |-> msg, requests |-> reqs,
     errors |-> nerr]

\* Faulty variant: the reveal flags are reset before the call instead of after it.
GenerateHandler_ResetFirst(ss, sec, top, reply) ==
    LET reqs == <<user_message(sec, top)>>
        s1 == [ss EXCEPT !.show_hint = FALSE, !.show_solution = FALSE]
    IN  IF reply.ok
        THEN IF reply.type = "dict"
             THEN Report(GenerateStore(s1, reply.value, sec, top),
                         "ok", "none", reqs, 0)
             ELSE Report(s1, "AttributeError", "error", reqs, 1)
        ELSE IF reply.type = "JSONDecodeError"
             THEN Report(s1, "JSONDecodeError", "format", reqs, 1)
             ELSE Report(s1, reply.type, "error", reqs, 1)

\* Faulty variant: a malformed response is asked for once more before it is reported.
GenerateHandler_Retry(ss, sec, top, reply) ==
    LET reqs == <<user_message(sec, top)>>
    IN  IF reply.ok
        THEN IF reply.type = "dict"
             THEN Report(GenerateStore(ss, reply.value, sec, top),
                         "ok", "none", reqs, 0)
             ELSE Report(ss, "AttributeError", "error", reqs, 1)
        ELSE IF reply.type = "JSONDecodeError"
             THEN Report(ss, "JSONDecodeError", "format", reqs \o reqs, 1)
             ELSE Report(ss, reply.type, "error", reqs, 1)

\* Section 9, "if generate_btn:".  reply is what call_gemini did.  A value
\* that json.loads returns and that is no dict has no get method: line 253
\* raises AttributeError before anything is assigned.
GenerateHandler(ss, sec, top, reply) ==
    LET reqs == <<user_message(sec, top)>>
    IN  IF reply.ok
        THEN IF reply.type = "dict"
             THEN Report(GenerateStore(ss, reply.value, sec, top),
                         "ok", "none", reqs, 0)
             ELSE Report(ss, "AttributeError", "error", reqs, 1)
        ELSE IF reply.type = "JSONDecodeError"
             THEN Report(ss, "JSONDecodeError", "format", reqs, 1)
             ELSE Report(ss, reply.type, "error", reqs, 1)

\* Faulty variant: each flag is assigned its button's value, not set when clicked.
RevealView_AssignButtons(ss, hint_btn, solution_btn) ==
    IF ss.current_question /= None
    THEN [ss EXCEPT
            !.show_hint = IF hint_btn \/ solution_btn THEN hint_btn ELSE @,
            !.show_solution = IF hint_btn \/ solution_btn THEN solution_btn ELSE @]
    ELSE ss

\* Faulty variant: the buttons are handled outside the "is not None" branch.
RevealView_Unguarded(ss, hint_btn, solution_btn) ==
    [ss EXCEPT
        !.show_hint = IF hint_btn THEN TRUE ELSE @,
        !.show_solution = IF solution_btn THEN TRUE ELSE @]

\* Section 10: the two reveal buttons exist only while a question is held.
RevealView(ss, hint_btn, solution_btn) ==
    IF ss.current_question /= None
    THEN [ss EXCEPT
            !.show_hint = IF hint_btn THEN TRUE ELSE @,
            !.show_solution = IF solution_btn THEN TRUE ELSE @]
    ELSE ss

\* Faulty variant: the heading's section and topic follow the sidebar on every run.
ScriptRun_DisplayFollowsSidebar(ss, sec, top, generate_btn, hint_btn, solution_btn, reply) ==
    LET s0 == [StateInit(ss) EXCEPT !.display_section = sec,
                                    !.display_topic = top]
        gen == IF generate_btn THEN GenerateHandler(s0, sec, top, reply)
               ELSE Report(s0, "none", "none", <<>>, 0)
    IN  [gen EXCEPT !.state = RevealView(gen.state, hint_btn, solution_btn)]

\* The whole script, top to bottom, for one interaction.
ScriptRun(ss, sec, top, generate_btn, hint_btn, solution_btn, reply) ==
    LET s0 == StateInit(ss)
        gen == IF generate_btn THEN GenerateHandler(s0, sec, top, reply)
               ELSE Report(s0, "none", "none", <<>>, 0)
    IN  [gen EXCEPT !.state = RevealView(gen.state, hint_btn, solution_btn)]

----------------------------------------------------------------------------
(* The session machine *)

NoFence == [fenced |-> FALSE, lead |-> <<>>, tag |-> <<>>, after |-> <<>>,
            before |-> <<>>, trail |-> <<>>]

Held(ss) == ss.current_question /= None

\* No call_gemini in this run.
NoReply == [ok |-> FALSE, type |-> "none", value |-> NoData]

History(trig, run, reply) ==
    [trigger |-> trig, outcome |-> run.outcome, message |-> run.message,
     requests |-> run.requests, errors |-> run.errors, reply |-> reply,
     pre_revealed |-> session_state.show_hint /\ session_state.show_solution]

Init ==
    /\ session_state = StateInit(<<>>)
    /\ section = SectionNames[1]
    /\ topic = TopicNames[1]
    /\ triggers = 0
    /\ calls = 0
    /\ last = [trigger |-> "start", outcome |-> "none", message |-> "none",
               requests |-> <<>>, errors |-> 0, reply |-> NoReply,
               pre_revealed |-> FALSE]
    /\ raw_text = <<>>
    /\ fence = NoFence
    /\ body = <<>>
    /\ parsed = NoReply
    /\ pc = "idle"

Apply(trig, run, reply) ==
    /\ session_state' = run.state
    /\ calls' = calls + Len(run.requests)
    /\ last' = History(trig, run, reply)
    /\ UNCHANGED parseVars

\* A click on the generate button.
Generate ==
    /\ triggers < MaxTriggers
    /\ \E reply \in Replies :
          Apply("Generate",
                ScriptRun(session_state, section, topic, TRUE, FALSE, FALSE, reply),
                reply)
    /\ triggers' = triggers + 1
    /\ UNCHANGED <<section, topic>>

\* A hint-button trigger.
RevealHint ==
    /\ Apply("RevealHint",
             ScriptRun(session_state, section, topic, FALSE, TRUE, FALSE, NoReply),
             NoReply)
    /\ UNCHANGED <<section, topic, triggers>>

\* A solution-button trigger.
RevealSolution ==
    /\ Apply("RevealSolution",
             ScriptRun(session_state, section, topic, FALSE, FALSE, TRUE, NoReply),
             NoReply)
    /\ UNCHANGED <<section, topic, triggers>>

\* Another section is picked in the sidebar: the script re-runs, no button set.
SelectSection ==
    /\ \E s \in SECTIONS \ {section} :
          /\ section' = s
          /\ Apply("Rerun",
                   ScriptRun(session_state, s, topic, FALSE, FALSE, FALSE, NoReply),
             NoReply)
    /\ UNCHANGED <<topic, triggers>>

\* Another topic is picked in the sidebar.
SelectTopic ==
    /\ \E t \in TOPICS \ {topic} :
          /\ topic' = t
          /\ Apply("Rerun",
                   ScriptRun(session_state, section, t, FALSE, FALSE, FALSE, NoReply),
             NoReply)
    /\ UNCHANGED <<section, triggers>>

\* A re-run that no button caused (the answer box was edited).
Rerender ==
    /\ Apply("Rerun",
             ScriptRun(session_state, section, topic, FALSE, FALSE, FALSE, NoReply),
             NoReply)
    /\ UNCHANGED <<section, topic, triggers>>

Next ==
    \/ Generate
    \/ RevealHint
    \/ RevealSolution
    \/ SelectSection
    \/ SelectTopic
    \/ Rerender

Spec == Init /\ [][Next]_vars

----------------------------------------------------------------------------
(* call_gemini on its own: one response text, wrapped or not in a fenced   *)
(* block, goes through the clean-up and json.loads.                        *)

CompactTexts ==
    { <<"{", "}">>,
      <<"{", LQuestion, ":", "\"Q1\"", ",", LHint, ":", "\"H1\"", ",",
        LSolution, ":", "\"S1\"", "}">>,
      <<SP, "{", LQuestion, ":", "null", "}", NL>>,
      <<"{", LQuestion, ":", "\"Q1\"", ",", LQuestion, ":", "\"Q2\"", "}">>,
      <<"{", LHint, ":", SP, "\"H1\"", NL, NL, "}">> }

Bodies == ObjectTexts \cup CompactTexts \cup NonObjectTexts \cup GarbageTexts

Tags == { <<>>, JsonTag, <<"j", "s">>, JsonTag \o <<"c">> }

Fences ==
    {[fenced |-> FALSE, lead |-> l, tag |-> <<>>, after |-> <<>>,
      before |-> <<>>, trail |-> t] :
        l \in {<<>>, <<NL>>}, t \in {<<>>, <<SP, NL>>}}
    \cup
    [fenced : {TRUE}, lead : {<<>>, <<NL>>}, tag : Tags,
     after : {<<NL>>, <<SP, NL>>}, before : {<<NL>>, <<NL, SP>>},
     trail : {<<>>, <<SP, NL>>}]

\* The text the service sends when it wraps b as f says.
Wrap(f, b) ==
    f.lead
    \o (IF f.fenced
        THEN FenceMark \o f.tag \o f.after \o b \o f.before \o FenceMark
        ELSE b)
    \o f.trail

InitParse ==
    /\ session_state = StateInit(<<>>)
    /\ section = SectionNames[1]
    /\ topic = TopicNames[1]
    /\ triggers = 0
    /\ calls = 0
    /\ last = [trigger |-> "start", outcome |-> "none", message |-> "none",
               requests |-> <<>>, errors |-> 0, reply |-> NoReply,
               pre_revealed |-> FALSE]
    /\ body \in Bodies
    /\ fence \in Fences
    /\ raw_text = Wrap(fence, body)
    /\ parsed = NoReply
    /\ pc = "received"

\* Lines 198-205 on the received text.
ParseResponse ==
    /\ pc = "received"
    /\ parsed' = call_gemini(raw_text)
    /\ pc' = "done"
    /\ UNCHANGED <<sessionVars, raw_text, fence, body>>

NextParse == ParseResponse

SpecParse == InitParse /\ [][NextParse]_vars

----------------------------------------------------------------------------
(* Properties *)

GenerateRan == last.trigger = "Generate"

GenerateSucceeded == last.trigger = "Generate" /\ last.outcome = "ok"

GenerateFailed == last.trigger = "Generate" /\ last.outcome /= "ok"

Display(ss) == <<ss.display_section, ss.display_topic>>

Result(ss) == <<ss.current_question, ss.current_hint, ss.current_solution>>

Stored ==
    [question |-> session_state.current_question,
     hint |-> session_state.current_hint,
     solution |-> session_state.current_solution]

Placeholder ==
    [question |-> QuestionPlaceholder, hint |-> HintPlaceholder,
     solution |-> SolutionPlaceholder]

\* C1: a Generate run that fails (the response is not JSON, is JSON but no
\* object, or the call raised) leaves all seven session fields as they were.
C1_FailedGenerateKeepsState ==
    [][(last'.trigger = "Generate" /\ last'.outcome /= "ok")
          => session_state' = session_state]_vars

\* A response that is JSON but no object has just failed while a question
\* with both reveals shown was held.
C1_Witness ==
    /\ GenerateFailed
    /\ last.outcome = "AttributeError"
    /\ session_state.current_question = PyStr("Q1")
    /\ session_state.show_hint
    /\ session_state.show_solution

\* C2: after every successful Generate both reveal flags are false.
C2_SuccessResetsFlags ==
    GenerateSucceeded
        => ~session_state.show_hint /\ ~session_state.show_solution

\* Generate succeeded from a state in which both flags were true.
C2_Witness ==
    /\ GenerateSucceeded
    /\ last.pre_revealed
    /\ ~session_state.show_hint
    /\ ~session_state.show_solution

\* C3: after every successful Generate the three fields of the result are
\* all text (none is None), whatever object was parsed.
C3_SuccessHoldsCompleteResult ==
    GenerateSucceeded
        => /\ IsText(session_state.current_question)
           /\ IsText(session_state.current_hint)
           /\ IsText(session_state.current_solution)

\* C4: when the response parses as an object, Generate succeeds and each
\* stored field is the object's value for its key when the key is present,
\* and that field's placeholder when it is absent.
C4_FieldsStoredIndependently ==
    (GenerateRan /\ last.reply.ok /\ last.reply.type = "dict")
        => /\ last.outcome = "ok"
           /\ \A k \in DOMAIN Placeholder :
                 Stored[k] = IF k \in DOMAIN last.reply.value
                             THEN last.reply.value[k]
                             ELSE Placeholder[k]

\* An object with a question, no hint and a null solution was stored.
C4_Witness ==
    /\ GenerateSucceeded
    /\ DOMAIN last.reply.value = {"question", "solution"}
    /\ session_state.current_question = PyStr("Q1")
    /\ session_state.current_hint = HintPlaceholder
    /\ session_state.current_solution = None

BodyIsObject == json_loads(body).ok /\ json_loads(body).type = "dict"

\* C5 as stated: a text that parses as an object gives the same result when
\* wrapped in a fenced block with any language tag, or when not wrapped.
C5_AnyFenceParsesAsUnwrapped ==
    (pc = "done" /\ BodyIsObject) => parsed = json_loads(body)

\* C5: a text that parses as an object gives the same result when wrapped in
\* a fenced block whose opening line is the three backticks alone or the
\* three backticks and json, or when not wrapped.
C5_JsonFenceParsesAsUnwrapped ==
    (pc = "done" /\ BodyIsObject /\ fence.tag \in {<<>>, JsonTag})
        => parsed = json_loads(body)

\* A json-tagged fence with white space around it was stripped from an
\* object that has a question.
C5_Witness ==
    /\ pc = "done"
    /\ fence.fenced
    /\ fence.tag = JsonTag
    /\ fence.lead /= <<>>
    /\ fence.trail /= <<>>
    /\ parsed.ok
    /\ parsed.type = "dict"
    /\ "question" \in DOMAIN parsed.value

\* C6: while a question is held, a hint trigger sets show_hint and nothing
\* else, a solution trigger sets show_solution and nothing else, and a flag
\* that is true stays true until a Generate succeeds.
C6_RevealSetsOneFlag ==
    [][/\ (last'.trigger = "RevealHint" /\ Held(session_state))
            => session_state' = [session_state EXCEPT !.show_hint = TRUE]
       /\ (last'.trigger = "RevealSolution" /\ Held(session_state))
            => session_state' = [session_state EXCEPT !.show_solution = TRUE]
       /\ (session_state.show_hint /\ ~session_state'.show_hint)
            => (last'.trigger = "Generate" /\ last'.outcome = "ok")
       /\ (session_state.show_solution /\ ~session_state'.show_solution)
            => (last'.trigger = "Generate" /\ last'.outcome = "ok")]_vars

\* The solution was revealed after the hint: both flags are true and the
\* full result is held.
C6_Witness ==
    /\ last.trigger = "RevealSolution"
    /\ session_state.show_hint
    /\ session_state.show_solution
    /\ Result(session_state) = <<PyStr("Q1"), PyStr("H1"), PyStr("S1")>>

\* C7: a hint or solution trigger while no question is held changes no
\* session field and reports nothing.
C7_RevealWithoutResultIsNoOp ==
    [][(last'.trigger \in {"RevealHint", "RevealSolution"}
          /\ ~Held(session_state))
          => /\ session_state' = session_state
             /\ last'.errors = 0
             /\ last'.outcome = "none"]_vars

\* A reveal trigger has run while no question was held.
C7_Witness ==
    /\ last.trigger \in {"RevealHint", "RevealSolution"}
    /\ ~Held(session_state)

\* C8: every Generate run sends exactly one request and reports a failure
\* exactly once; no other run sends a request; so the calls made equal the
\* Generate triggers.
C8_OneCallPerTrigger ==
    /\ calls = triggers
    /\ GenerateRan
         => /\ Len(last.requests) = 1
            /\ last.errors = IF last.outcome = "ok" THEN 0 ELSE 1
    /\ ~GenerateRan => (last.requests = <<>> /\ last.errors = 0)

\* A second Generate has failed and was followed by no further call.
C8_Witness ==
    /\ triggers >= 2
    /\ GenerateFailed
    /\ last.outcome = "JSONDecodeError"
    /\ calls = triggers

\* C9: display_section and display_topic, and the held question, change
\* only in a successful Generate run, which sets the two to the section and
\* topic its request named.
C9_DisplayWrittenBySuccessOnly ==
    [][IF last'.trigger = "Generate" /\ last'.outcome = "ok"
       THEN Display(session_state') = last'.requests[1]
       ELSE /\ Display(session_state') = Display(session_state)
            /\ Result(session_state') = Result(session_state)]_vars

\* A Generate under another selection has failed: the heading still names
\* the section and topic of the question that is held.
C9_Witness ==
    /\ GenerateFailed
    /\ Held(session_state)
    /\ session_state.display_section /= section
    /\ session_state.display_topic /= topic
    /\ last.requests = <<user_message(section, topic)>>

\* C10: while no question is held both reveal flags are false.
C10_NoFlagWithoutQuestion ==
    ~Held(session_state)
        => ~session_state.show_hint /\ ~session_state.show_solution

\* A successful Generate whose question is null replaced a result whose
\* hint and solution were shown.
C10_Witness ==
    /\ GenerateSucceeded
    /\ last.pre_revealed
    /\ ~Held(session_state)

====
